---- MODULE Spec2Model ----
(***************************************************************************)
(* The analysis script rsa_try_mahalanobis.py as a state machine: one      *)
(* sequential process whose position is pc, stepping through the region    *)
(* loop (RDMs, Mahalanobis RDMs, comparison, t-test, saving) and then the  *)
(* repeated-measures ANOVA over the similarity files it wrote.             *)
(*                                                                         *)
(* Calls into rsatoolbox / scipy / statsmodels and into rsa_functions are  *)
(* modelled by their numeric contract on small abstract data:              *)
(*   - the RDM of one subject is a record carrying its 'subjects'          *)
(*     descriptor, its region, its kind and an abstract pattern;           *)
(*   - compare(..., 'corr') of two one-subject RDMs is 1 when the patterns *)
(*     agree and 0 otherwise;                                              *)
(*   - the repeated-measures F statistic is computed exactly, as a         *)
(*     fraction, from the sums of squares of the data frame. The p value   *)
(*     (a function of F and the degrees of freedom) is not modelled.       *)
(***************************************************************************)
EXTENDS Integers, Sequences, FiniteSets, TLC

\* ------------------------------------------------------------------ bounds
\* At most MaxDeviant (region, subject) cells of the input data have an
\* imagery pattern that differs from the stimulation pattern.
MaxDeviant == 1

\* ------------------------------------------------------- program constants
\* subjects = ["001", ..., "010"], each string as its sequence of digits
subjects ==
    << <<0,0,1>>, <<0,0,2>>, <<0,0,3>>, <<0,0,4>>, <<0,0,5>>,
       <<0,0,6>>, <<0,0,7>>, <<0,0,8>>, <<0,0,9>>, <<0,1,0>> >>

regions_of_interest ==
    << "rPSC_2", "rPSC_1", "rPSC_3b", "rSII_TR50_right", "rSII_TR50_left" >>

resultpath == "../analysis/"

\* np.arange(1, 11) and [1, 2, 3, 4, 5] of the data frame
TileStop == 11
TileReps == 5
RepeatCount == 10

\* anova_report = 'F(4,36) = 0.458, p = 0.766'; F in thousandths
HardF == 458
HardDf1 == 4
HardDf2 == 36

NSubj == Len(subjects)
NReg == Len(regions_of_interest)

\* values that are no similarity: an unassigned np.empty slot, and nan
Uninit == -1
NaN == -2

\* --------------------------------------------------------------- helpers
RECURSIVE IntOfDigits(_)
\* int(subject): the decimal value of a digit string
IntOfDigits(d) ==
    IF Len(d) = 0 THEN 0
    ELSE 10 * IntOfDigits(SubSeq(d, 1, Len(d) - 1)) + d[Len(d)]

RECURSIVE SumSeq(_)
SumSeq(s) == IF Len(s) = 0 THEN 0 ELSE s[1] + SumSeq(Tail(s))

Cells == (1..NReg) \X (1..NSubj)

RECURSIVE CellSetsUpTo(_, _)
\* the sets of at most k cells of region r
CellSetsUpTo(r, k) ==
    IF k <= 0 THEN {{}}
    ELSE LET smaller == CellSetsUpTo(r, k - 1)
         IN  smaller \cup {d \cup {<<r, i>>} : d \in smaller, i \in 1..NSubj}

\* --------------------------------------------------------- the toolbox
\* create_rsa_datasets(data_from_region, len(subjects), conditions_key):
\* one dataset per subject position, carrying descriptor subjects = position
create_rsa_datasets(r, n, dev) ==
    [i \in 1..n |->
        [subjects |-> i, region |-> regions_of_interest[r],
         stim |-> 0, imag |-> IF <<r, i>> \in dev THEN 1 ELSE 0]]

\* dataset.subset_obs(by=conditions_key, value=...) for every dataset
SubsetObs(datasets, kind) ==
    [i \in 1..Len(datasets) |->
        [subjects |-> datasets[i].subjects, region |-> datasets[i].region,
         kind |-> kind,
         pat |-> IF kind = "stimulation" THEN datasets[i].stim
                 ELSE datasets[i].imag]]

AllObs(datasets) ==
    [i \in 1..Len(datasets) |->
        [subjects |-> datasets[i].subjects, region |-> datasets[i].region,
         kind |-> "all", pat |-> <<datasets[i].stim, datasets[i].imag>>]]

\* rsr.calc_rdm(list of datasets, method, descriptor): one RDM per dataset,
\* in list order, each keeping its dataset's descriptors
calc_rdm(data, method) ==
    [i \in 1..Len(data) |->
        [subjects |-> data[i].subjects, region |-> data[i].region,
         kind |-> data[i].kind, method |-> method, pat |-> data[i].pat]]

\* RDMs.subset('subjects', value)
subset(rdms, value) == SelectSeq(rdms, LAMBDA m : m.subjects = value)

\* rsatoolbox.rdm.compare(a, b, method='corr')[0][0]
compare(a, b) == IF a[1].pat = b[1].pat THEN 1 ELSE 0

\* stats.ttest_1samp(sample, popmean=0, alternative='greater')
ttest_1samp(sample) ==
    [sample |-> sample, total |-> SumSeq(sample), df |-> Len(sample) - 1]

\* ------------------------------------------------------ the result files
\* <comparison>_rsa_<method>.txt, as its pieces
RsaFileName(comparison, method) == <<comparison, "_rsa_", method, ".txt">>

\* os.path.join(resultpath, region, 'rsa', 'stim_imag_rsa_corr.txt')
CorrPath(region) ==
    <<resultpath, region, "rsa", <<"stim_imag", "_rsa_", "corr", ".txt">> >>

\* the path save_rsa_results writes
RsaPath(path, region, comparison, method) ==
    <<path, region, "rsa", RsaFileName(comparison, method)>>

\* os.path.join(os.path.join(resultpath, "anova"), "similiarities_anova.txt")
AnovaPath == <<resultpath, "anova", "similiarities_anova.txt">>

Methods == {"corr", "ttest"}

AllPaths ==
    {RsaPath(resultpath, regions_of_interest[r], "stim_imag", m) :
        r \in 1..NReg, m \in Methods} \cup {AnovaPath}

Absent == [exists |-> FALSE, fresh |-> FALSE, content |-> <<>>]

\* the text of a list of similarities: every value followed by a comma, so
\* the line ends in an empty field
CorrText(values) == [i \in 1..(Len(values) + 1) |->
                        IF i <= Len(values) THEN <<values[i]>> ELSE <<>>]

\* a file left by an earlier run of the script
StaleFile(p) ==
    [exists |-> TRUE, fresh |-> FALSE,
     content |-> IF p = AnovaPath \/ p[4][3] = "ttest" THEN <<"stale">>
                 ELSE CorrText([i \in 1..NSubj |-> 0])]

\* save_rsa_results(resultpath, region, comparison, method, data): replaces
\* the file <resultpath>/<region>/rsa/<comparison>_rsa_<method>.txt
save_rsa_results(files, path, region, comparison, method, data) ==
    [files EXCEPT ![RsaPath(path, region, comparison, method)] =
        [exists |-> TRUE, fresh |-> TRUE,
         content |-> IF method = "corr" THEN CorrText(data) ELSE <<data>>]]

\* np.genfromtxt(path, delimiter=','): one number per field, nan for an
\* empty field
genfromtxt(content) ==
    [i \in 1..Len(content) |->
        IF Len(content[i]) = 0 THEN NaN ELSE content[i][1]]

\* ------------------------------------------------------- the data frame
\* np.arange(start, stop)
arange(start, stop) == [i \in 1..(stop - start) |-> start + i - 1]

\* np.tile(a, reps)
tile(a, reps) == [k \in 1..(Len(a) * reps) |-> a[((k - 1) % Len(a)) + 1]]

\* np.repeat(a, repeats)
repeat(a, repeats) ==
    [k \in 1..(Len(a) * repeats) |-> a[((k - 1) \div repeats) + 1]]

\* pd.DataFrame({...}): one row per position of the three columns
DataFrame(subj, rois, sim) ==
    [k \in 1..Len(sim) |->
        [Subject |-> subj[k], ROIs |-> rois[k], Similiarity |-> sim[k]]]

\* ------------------------------------------------- repeated-measures ANOVA
RowsWhere(df, col, v) == {k \in 1..Len(df) : df[k][col] = v}

Levels(df, col) == {df[k][col] : k \in 1..Len(df)}

RECURSIVE SumOver(_, _)
\* sum of the Similiarity column over the rows ks
SumOver(df, ks) ==
    IF ks = {} THEN 0
    ELSE LET k == CHOOSE x \in ks : TRUE
         IN  df[k].Similiarity + SumOver(df, ks \ {k})

RECURSIVE SumSq(_, _, _)
\* sum over the levels vs of column col of the squared group sum
SumSq(df, col, vs) ==
    IF vs = {} THEN 0
    ELSE LET v == CHOOSE x \in vs : TRUE
             g == SumOver(df, RowsWhere(df, col, v))
         IN  g * g + SumSq(df, col, vs \ {v})

RECURSIVE SumSqRows(_, _)
SumSqRows(df, ks) ==
    IF ks = {} THEN 0
    ELSE LET k == CHOOSE x \in ks : TRUE
         IN  df[k].Similiarity * df[k].Similiarity + SumSqRows(df, ks \ {k})

\* AnovaRM needs exactly one observation per (subject, within) cell
Balanced(df) ==
    \A s \in Levels(df, "Subject") : \A r \in Levels(df, "ROIs") :
        Cardinality({k \in 1..Len(df) :
                        df[k].Subject = s /\ df[k].ROIs = r}) = 1

\* AnovaRM(data, depvar='Similiarity', subject='Subject', within=['ROIs'])
\* .fit(): F = (SS_rois / df1) / (SS_error / df2), kept as a fraction
AnovaRM(df) ==
    LET a  == Cardinality(Levels(df, "ROIs"))
        n  == Cardinality(Levels(df, "Subject"))
        N  == Len(df)
        T  == SumOver(df, 1..N)
        R2 == SumSq(df, "ROIs", Levels(df, "ROIs"))
        S2 == SumSq(df, "Subject", Levels(df, "Subject"))
        V2 == SumSqRows(df, 1..N)
    IN  [F_num |-> (a * R2 - T * T) * (n - 1),
         F_den |-> N * V2 - a * R2 - n * S2 + T * T,
         df1 |-> a - 1, df2 |-> (a - 1) * (n - 1)]

\* round(F, 3) in thousandths; nan when the error sum of squares is 0
Round3(num, den) ==
    IF den = 0 THEN NaN ELSE (2000 * num + den) \div (2 * den)

\* the report of a fitted ANOVA: 'F(df1,df2) = <F>'
ReportOf(res) ==
    [F |-> Round3(res.F_num, res.F_den), df1 |-> res.df1, df2 |-> res.df2]

\* anova_report = 'F(4,36) = 0.458, p = 0.766'
HardCodedReport == [F |-> HardF, df1 |-> HardDf1, df2 |-> HardDf2]

VARIABLES
    pc,            \* position of the script
    deviant,       \* input data seen so far: the cells whose imagery
                   \* pattern differs from the stimulation pattern
    fs,            \* the files under resultpath
    region_idx,    \* position of the region loops in regions_of_interest
    subj_idx,      \* number of subjects already handled by a subject loop
    stimulation_RDMs_euclidean_all_regions,
    imagery_RDMs_euclidean_all_regions,
    all_RDMs_euclidean_all_regions,
    stimulation_data,
    stimulation_RDM_euclidean,
    imagery_RDM_euclidean,
    all_RDM_euclidean,
    stimulation_RDMs_mahalanobis_all_subjects,
    similiarities,
    compare_calls,  \* the rsatoolbox.rdm.compare calls made so far
    significance,
    significance_report,
    ttest_calls,    \* the stats.ttest_1samp calls made so far
    rdm_saves,      \* the save_rdm_results calls made so far
    rsa_saves,      \* the save_rsa_results calls made so far
    all_similiarity_values,
    assigned,       \* how often each slot of all_similiarity_values was set
    anova_reads,    \* the regions whose similarity file the ANOVA has read
    similiarity_data,
    anova_results,
    anova_report

vars == << pc, deviant, fs, region_idx, subj_idx,
           stimulation_RDMs_euclidean_all_regions,
           imagery_RDMs_euclidean_all_regions,
           all_RDMs_euclidean_all_regions,
           stimulation_data,
           stimulation_RDM_euclidean, imagery_RDM_euclidean, all_RDM_euclidean,
           stimulation_RDMs_mahalanobis_all_subjects,
           similiarities, compare_calls, significance, significance_report,
           ttest_calls, rdm_saves, rsa_saves,
           all_similiarity_values, assigned, anova_reads,
           similiarity_data, anova_results, anova_report >>


\* ------------------------------------------------------------ the script
region == regions_of_interest[region_idx]

\* the subject the running subject loop is at
subject == subjects[subj_idx + 1]

Init ==
    /\ pc = "region_loop"
    /\ deviant = {}
    /\ \E stale \in BOOLEAN :
          fs = [p \in AllPaths |-> IF stale THEN StaleFile(p) ELSE Absent]
    /\ region_idx = 0
    /\ subj_idx = 0
    /\ stimulation_RDMs_euclidean_all_regions = <<>>
    /\ imagery_RDMs_euclidean_all_regions = <<>>
    /\ all_RDMs_euclidean_all_regions = <<>>
    /\ stimulation_data = <<>>
    /\ stimulation_RDM_euclidean = <<>>
    /\ imagery_RDM_euclidean = <<>>
    /\ all_RDM_euclidean = <<>>
    /\ stimulation_RDMs_mahalanobis_all_subjects = <<>>
    /\ similiarities = <<>>
    /\ compare_calls = <<>>
    /\ significance = <<>>
    /\ significance_report = <<>>
    /\ ttest_calls = <<>>
    /\ rdm_saves = <<>>
    /\ rsa_saves = <<>>
    /\ all_similiarity_values = <<>>
    /\ assigned = <<>>
    /\ anova_reads = <<>>
    /\ similiarity_data = <<>>
    /\ anova_results = <<>>
    /\ anova_report = <<>>

\* a variant of MoreRegions that leaves the loop one region early
MoreRegions_OneShort == region_idx < NReg - 1

\* whether the region loop has a region left
MoreRegions == region_idx < NReg

\* for region in regions_of_interest: the next region, or the loop's end
RegionLoop ==
    /\ pc = "region_loop"
    /\ IF MoreRegions
       THEN /\ region_idx' = region_idx + 1
            /\ pc' = "calc_rdm"
       ELSE /\ region_idx' = region_idx
            /\ pc' = "anova_alloc"
    /\ UNCHANGED << deviant, fs, subj_idx,
                    stimulation_RDMs_euclidean_all_regions,
                    imagery_RDMs_euclidean_all_regions,
                    all_RDMs_euclidean_all_regions, stimulation_data,
                    stimulation_RDM_euclidean, imagery_RDM_euclidean,
                    all_RDM_euclidean,
                    stimulation_RDMs_mahalanobis_all_subjects,
                    similiarities, compare_calls, significance,
                    significance_report, ttest_calls, rdm_saves, rsa_saves,
                    all_similiarity_values, assigned, anova_reads,
                    similiarity_data, anova_results, anova_report >>

\* the region's data (read here from the masked input), its datasets, its
\* three Euclidean RDMs and their collection
CalcRDMs ==
    /\ pc = "calc_rdm"
    /\ \E d \in CellSetsUpTo(region_idx, MaxDeviant - Cardinality(deviant)) :
          deviant' = deviant \cup d
    /\ LET region_datasets == create_rsa_datasets(region_idx, NSubj, deviant')
           stim_data == SubsetObs(region_datasets, "stimulation")
           imagery_data == SubsetObs(region_datasets, "imagery")
           stim_rdm == calc_rdm(stim_data, "euclidean")
           imag_rdm == calc_rdm(imagery_data, "euclidean")
           all_rdm == calc_rdm(AllObs(region_datasets), "euclidean")
       IN  /\ stimulation_data' = stim_data
           /\ stimulation_RDM_euclidean' = stim_rdm
           /\ imagery_RDM_euclidean' = imag_rdm
           /\ all_RDM_euclidean' = all_rdm
           /\ stimulation_RDMs_euclidean_all_regions' =
                 Append(stimulation_RDMs_euclidean_all_regions, stim_rdm)
           /\ imagery_RDMs_euclidean_all_regions' =
                 Append(imagery_RDMs_euclidean_all_regions, imag_rdm)
           /\ all_RDMs_euclidean_all_regions' =
                 Append(all_RDMs_euclidean_all_regions, all_rdm)
    /\ stimulation_RDMs_mahalanobis_all_subjects' = <<>>
    /\ subj_idx' = 0
    /\ pc' = "mahalanobis"
    /\ UNCHANGED << fs, region_idx, similiarities, compare_calls,
                    significance, significance_report, ttest_calls,
                    rdm_saves, rsa_saves, all_similiarity_values, assigned,
                    anova_reads, similiarity_data, anova_results,
                    anova_report >>

\* rsr.calc_rdm(stimulation_data[int(subject)-1], method='mahalanobis', ...)
MahalanobisRDM(subj) ==
    LET d == stimulation_data[IntOfDigits(subj)]
    IN  [subjects |-> d.subjects, region |-> d.region, kind |-> d.kind,
         method |-> "mahalanobis", pat |-> d.pat]

\* the Mahalanobis loop over all subjects; its list is used nowhere else
Mahalanobis ==
    /\ pc = "mahalanobis"
    /\ stimulation_RDMs_mahalanobis_all_subjects' =
          [j \in 1..NSubj |-> MahalanobisRDM(subjects[j])]
    /\ pc' = "start_compare"
    /\ UNCHANGED << deviant, fs, region_idx, subj_idx,
                    stimulation_RDMs_euclidean_all_regions,
                    imagery_RDMs_euclidean_all_regions,
                    all_RDMs_euclidean_all_regions, stimulation_data,
                    stimulation_RDM_euclidean, imagery_RDM_euclidean,
                    all_RDM_euclidean, similiarities, compare_calls,
                    significance, significance_report, ttest_calls,
                    rdm_saves, rsa_saves, all_similiarity_values, assigned,
                    anova_reads, similiarity_data, anova_results,
                    anova_report >>

\* method = 'corr'; similiarities = []
StartCompare ==
    /\ pc = "start_compare"
    /\ similiarities' = <<>>
    /\ subj_idx' = 0
    /\ pc' = "compare"
    /\ UNCHANGED << deviant, fs, region_idx,
                    stimulation_RDMs_euclidean_all_regions,
                    imagery_RDMs_euclidean_all_regions,
                    all_RDMs_euclidean_all_regions, stimulation_data,
                    stimulation_RDM_euclidean, imagery_RDM_euclidean,
                    all_RDM_euclidean,
                    stimulation_RDMs_mahalanobis_all_subjects,
                    compare_calls, significance, significance_report,
                    ttest_calls, rdm_saves, rsa_saves,
                    all_similiarity_values, assigned, anova_reads,
                    similiarity_data, anova_results, anova_report >>

\* the subject key selecting the stimulation RDM of a comparison
StimKey(subj) == IntOfDigits(subj)

\* a variant of ImagKey that selects the following subject's RDM
ImagKey_NextSubject(subj) == (IntOfDigits(subj) % NSubj) + 1

\* the subject key selecting the imagery RDM of a comparison
ImagKey(subj) == IntOfDigits(subj)

\* one subject of the comparison loop
Compare ==
    /\ pc = "compare"
    /\ subj_idx < NSubj
    /\ LET a == subset(stimulation_RDM_euclidean, StimKey(subject))
           b == subset(imagery_RDM_euclidean, ImagKey(subject))
       IN  IF Len(a) = 0 \/ Len(b) = 0
           THEN /\ pc' = "crashed"
                /\ UNCHANGED << similiarities, compare_calls, subj_idx >>
           ELSE /\ similiarities' = Append(similiarities, compare(a, b))
                /\ compare_calls' = Append(compare_calls,
                                           [region |-> region,
                                            a |-> a[1], b |-> b[1]])
                /\ subj_idx' = subj_idx + 1
                /\ pc' = pc
    /\ UNCHANGED << deviant, fs, region_idx,
                    stimulation_RDMs_euclidean_all_regions,
                    imagery_RDMs_euclidean_all_regions,
                    all_RDMs_euclidean_all_regions, stimulation_data,
                    stimulation_RDM_euclidean, imagery_RDM_euclidean,
                    all_RDM_euclidean,
                    stimulation_RDMs_mahalanobis_all_subjects,
                    significance, significance_report, ttest_calls,
                    rdm_saves, rsa_saves, all_similiarity_values, assigned,
                    anova_reads, similiarity_data, anova_results,
                    anova_report >>

\* a variant of TTest that goes on to the saving without testing
TTest_NotComputed ==
    /\ pc = "compare"
    /\ subj_idx = NSubj
    /\ UNCHANGED << significance, significance_report, ttest_calls >>
    /\ subj_idx' = 0
    /\ pc' = "save_rdm"
    /\ UNCHANGED << deviant, fs, region_idx,
                    stimulation_RDMs_euclidean_all_regions,
                    imagery_RDMs_euclidean_all_regions,
                    all_RDMs_euclidean_all_regions, stimulation_data,
                    stimulation_RDM_euclidean, imagery_RDM_euclidean,
                    all_RDM_euclidean,
                    stimulation_RDMs_mahalanobis_all_subjects,
                    similiarities, compare_calls, rdm_saves, rsa_saves,
                    all_similiarity_values, assigned, anova_reads,
                    similiarity_data, anova_results, anova_report >>

\* the one-sample t-test over the region's similarities and its report
TTest ==
    /\ pc = "compare"
    /\ subj_idx = NSubj
    /\ LET sig == ttest_1samp(similiarities)
       IN  /\ significance' = sig
           /\ significance_report' =
                 [method |-> "corr", total |-> sig.total,
                  n |-> Len(similiarities), df |-> sig.df]
           /\ ttest_calls' = Append(ttest_calls,
                                    [region |-> region,
                                     sample |-> similiarities])
    /\ subj_idx' = 0
    /\ pc' = "save_rdm"
    /\ UNCHANGED << deviant, fs, region_idx,
                    stimulation_RDMs_euclidean_all_regions,
                    imagery_RDMs_euclidean_all_regions,
                    all_RDMs_euclidean_all_regions, stimulation_data,
                    stimulation_RDM_euclidean, imagery_RDM_euclidean,
                    all_RDM_euclidean,
                    stimulation_RDMs_mahalanobis_all_subjects,
                    similiarities, compare_calls, rdm_saves, rsa_saves,
                    all_similiarity_values, assigned, anova_reads,
                    similiarity_data, anova_results, anova_report >>

\* the record of one save_rdm_results(resultpath, region, kind, distance,
\* matrix, subject) call
RdmSave(kind, rdm, subj) ==
    [path |-> resultpath, region |-> region, kind |-> kind,
     distance |-> "euclidean", matrix |-> rdm[IntOfDigits(subj)],
     subject |-> subj]

\* a variant of SaveKinds that leaves out the RDM of all conditions
SaveKinds_NoAll(subj) ==
    << RdmSave("stimulation", stimulation_RDM_euclidean, subj),
       RdmSave("imagery", imagery_RDM_euclidean, subj) >>

\* the save_rdm_results calls of one subject, in order
SaveKinds(subj) ==
    << RdmSave("stimulation", stimulation_RDM_euclidean, subj),
       RdmSave("imagery", imagery_RDM_euclidean, subj),
       RdmSave("all", all_RDM_euclidean, subj) >>

\* one subject of the RDM saving loop
SaveRDM ==
    /\ pc = "save_rdm"
    /\ subj_idx < NSubj
    /\ rdm_saves' = rdm_saves \o SaveKinds(subject)
    /\ subj_idx' = subj_idx + 1
    /\ UNCHANGED << pc, deviant, fs, region_idx,
                    stimulation_RDMs_euclidean_all_regions,
                    imagery_RDMs_euclidean_all_regions,
                    all_RDMs_euclidean_all_regions, stimulation_data,
                    stimulation_RDM_euclidean, imagery_RDM_euclidean,
                    all_RDM_euclidean,
                    stimulation_RDMs_mahalanobis_all_subjects,
                    similiarities, compare_calls, significance,
                    significance_report, ttest_calls, rsa_saves,
                    all_similiarity_values, assigned, anova_reads,
                    similiarity_data, anova_results, anova_report >>

\* save_rsa_results(resultpath, region, 'stim_imag', method, similiarities)
SaveRSACorr ==
    /\ pc = "save_rdm"
    /\ subj_idx = NSubj
    /\ fs' = save_rsa_results(fs, resultpath, region, "stim_imag", "corr",
                              similiarities)
    /\ rsa_saves' = Append(rsa_saves,
                           [region |-> region, comparison |-> "stim_imag",
                            method |-> "corr", data |-> similiarities])
    /\ pc' = "save_ttest"
    /\ UNCHANGED << deviant, region_idx, subj_idx,
                    stimulation_RDMs_euclidean_all_regions,
                    imagery_RDMs_euclidean_all_regions,
                    all_RDMs_euclidean_all_regions, stimulation_data,
                    stimulation_RDM_euclidean, imagery_RDM_euclidean,
                    all_RDM_euclidean,
                    stimulation_RDMs_mahalanobis_all_subjects,
                    similiarities, compare_calls, significance,
                    significance_report, ttest_calls, rdm_saves,
                    all_similiarity_values, assigned, anova_reads,
                    similiarity_data, anova_results, anova_report >>

\* save_rsa_results(resultpath, region, 'stim_imag', 'ttest',
\* significance_report)
SaveRSATtest ==
    /\ pc = "save_ttest"
    /\ fs' = save_rsa_results(fs, resultpath, region, "stim_imag", "ttest",
                              significance_report)
    /\ rsa_saves' = Append(rsa_saves,
                           [region |-> region, comparison |-> "stim_imag",
                            method |-> "ttest", data |-> significance_report])
    /\ pc' = "region_loop"
    /\ UNCHANGED << deviant, region_idx, subj_idx,
                    stimulation_RDMs_euclidean_all_regions,
                    imagery_RDMs_euclidean_all_regions,
                    all_RDMs_euclidean_all_regions, stimulation_data,
                    stimulation_RDM_euclidean, imagery_RDM_euclidean,
                    all_RDM_euclidean,
                    stimulation_RDMs_mahalanobis_all_subjects,
                    similiarities, compare_calls, significance,
                    significance_report, ttest_calls, rdm_saves,
                    all_similiarity_values, assigned, anova_reads,
                    similiarity_data, anova_results, anova_report >>


\* ---------------------------------------------------------------- ANOVA
\* all_similiarity_values = np.empty(len(subjects)*len(regions_of_interest))
AnovaAlloc ==
    /\ pc = "anova_alloc"
    /\ all_similiarity_values' = [k \in 1..(NSubj * NReg) |-> Uninit]
    /\ assigned' = [k \in 1..(NSubj * NReg) |-> 0]
    /\ region_idx' = 0
    /\ pc' = "anova_read"
    /\ UNCHANGED << deviant, fs, subj_idx,
                    stimulation_RDMs_euclidean_all_regions,
                    imagery_RDMs_euclidean_all_regions,
                    all_RDMs_euclidean_all_regions, stimulation_data,
                    stimulation_RDM_euclidean, imagery_RDM_euclidean,
                    all_RDM_euclidean,
                    stimulation_RDMs_mahalanobis_all_subjects, similiarities,
                    compare_calls, significance, significance_report,
                    ttest_calls, rdm_saves, rsa_saves, anova_reads,
                    similiarity_data, anova_results, anova_report >>

\* first position (from 0) of the slice the region at index fills
SliceStart(index) == index * NSubj

\* the position after the last one of the slice the region at index fills
SliceStop(index) == (index * NSubj) + NSubj

\* a variant of AllButLast that drops the first field instead: values[1:]
AllButLast_DropsFirst(values) == SubSeq(values, 2, Len(values))

\* region_similiarity_values[0:-1]
AllButLast(values) == SubSeq(values, 1, Len(values) - 1)

\* the positions (from 0) a slice start:stop of an array of length n covers
SlicePositions(start, stop, n) == {q \in 0..(n - 1) : start <= q /\ q < stop}

\* one region of the loop reading the similarity files; region_idx is the
\* enumerate index of the region read
AnovaRead ==
    /\ pc = "anova_read"
    /\ region_idx < NReg
    /\ LET index == region_idx
           rsa_path == CorrPath(regions_of_interest[index + 1])
           region_similiarity_values == genfromtxt(fs[rsa_path].content)
           src == AllButLast(region_similiarity_values)
           start == SliceStart(index)
           pos == SlicePositions(start, SliceStop(index),
                                 Len(all_similiarity_values))
       IN  IF ~fs[rsa_path].exists
              \/ (Len(src) # Cardinality(pos) /\ Len(src) # 1)
           THEN /\ pc' = "crashed"
                /\ UNCHANGED << all_similiarity_values, assigned,
                                anova_reads, region_idx >>
           ELSE /\ all_similiarity_values' =
                     [k \in 1..Len(all_similiarity_values) |->
                        IF (k - 1) \in pos
                        THEN IF Len(src) = 1 THEN src[1]
                             ELSE src[k - start]
                        ELSE all_similiarity_values[k]]
                /\ assigned' =
                     [k \in 1..Len(assigned) |->
                        IF (k - 1) \in pos THEN assigned[k] + 1
                        ELSE assigned[k]]
                /\ anova_reads' =
                     Append(anova_reads,
                            [region |-> regions_of_interest[index + 1],
                             fresh |-> fs[rsa_path].fresh])
                /\ region_idx' = region_idx + 1
                /\ pc' = pc
    /\ UNCHANGED << deviant, fs, subj_idx,
                    stimulation_RDMs_euclidean_all_regions,
                    imagery_RDMs_euclidean_all_regions,
                    all_RDMs_euclidean_all_regions, stimulation_data,
                    stimulation_RDM_euclidean, imagery_RDM_euclidean,
                    all_RDM_euclidean,
                    stimulation_RDMs_mahalanobis_all_subjects, similiarities,
                    compare_calls, significance, significance_report,
                    ttest_calls, rdm_saves, rsa_saves, similiarity_data,
                    anova_results, anova_report >>

\* a variant of SubjectColumn that repeats each subject instead of tiling
SubjectColumn_Repeated == repeat(arange(1, TileStop), TileReps)

\* the 'Subject' column
SubjectColumn == tile(arange(1, TileStop), TileReps)

\* the 'ROIs' column
ROIsColumn == repeat(arange(1, NReg + 1), RepeatCount)

\* similiarity_data = pd.DataFrame(...)
BuildDataFrame ==
    /\ pc = "anova_read"
    /\ region_idx = NReg
    /\ IF Len(SubjectColumn) = Len(all_similiarity_values)
          /\ Len(ROIsColumn) = Len(all_similiarity_values)
       THEN /\ similiarity_data' =
                 DataFrame(SubjectColumn, ROIsColumn, all_similiarity_values)
            /\ pc' = "anova_fit"
       ELSE /\ similiarity_data' = similiarity_data
            /\ pc' = "crashed"
    /\ UNCHANGED << deviant, fs, region_idx, subj_idx,
                    stimulation_RDMs_euclidean_all_regions,
                    imagery_RDMs_euclidean_all_regions,
                    all_RDMs_euclidean_all_regions, stimulation_data,
                    stimulation_RDM_euclidean, imagery_RDM_euclidean,
                    all_RDM_euclidean,
                    stimulation_RDMs_mahalanobis_all_subjects, similiarities,
                    compare_calls, significance, significance_report,
                    ttest_calls, rdm_saves, rsa_saves,
                    all_similiarity_values, assigned, anova_reads,
                    anova_results, anova_report >>

\* anova_results = AnovaRM(...).fit()
AnovaFit ==
    /\ pc = "anova_fit"
    /\ IF Balanced(similiarity_data)
       THEN /\ anova_results' = AnovaRM(similiarity_data)
            /\ pc' = "anova_report"
       ELSE /\ anova_results' = anova_results
            /\ pc' = "crashed"
    /\ UNCHANGED << deviant, fs, region_idx, subj_idx,
                    stimulation_RDMs_euclidean_all_regions,
                    imagery_RDMs_euclidean_all_regions,
                    all_RDMs_euclidean_all_regions, stimulation_data,
                    stimulation_RDM_euclidean, imagery_RDM_euclidean,
                    all_RDM_euclidean,
                    stimulation_RDMs_mahalanobis_all_subjects, similiarities,
                    compare_calls, significance, significance_report,
                    ttest_calls, rdm_saves, rsa_saves,
                    all_similiarity_values, assigned, anova_reads,
                    similiarity_data, anova_report >>

\* anova_report = 'F(4,36) = 0.458, p = 0.766'
AnovaReport ==
    /\ pc = "anova_report"
    /\ anova_report' = HardCodedReport
    /\ pc' = "anova_write"
    /\ UNCHANGED << deviant, fs, region_idx, subj_idx,
                    stimulation_RDMs_euclidean_all_regions,
                    imagery_RDMs_euclidean_all_regions,
                    all_RDMs_euclidean_all_regions, stimulation_data,
                    stimulation_RDM_euclidean, imagery_RDM_euclidean,
                    all_RDM_euclidean,
                    stimulation_RDMs_mahalanobis_all_subjects, similiarities,
                    compare_calls, significance, significance_report,
                    ttest_calls, rdm_saves, rsa_saves,
                    all_similiarity_values, assigned, anova_reads,
                    similiarity_data, anova_results >>

\* the anova directory, and similiarities_anova.txt replaced by the report
WriteAnova ==
    /\ pc = "anova_write"
    /\ fs' = [fs EXCEPT ![AnovaPath] =
                 [exists |-> TRUE, fresh |-> TRUE,
                  content |-> <<anova_report>>]]
    /\ pc' = "done"
    /\ UNCHANGED << deviant, region_idx, subj_idx,
                    stimulation_RDMs_euclidean_all_regions,
                    imagery_RDMs_euclidean_all_regions,
                    all_RDMs_euclidean_all_regions, stimulation_data,
                    stimulation_RDM_euclidean, imagery_RDM_euclidean,
                    all_RDM_euclidean,
                    stimulation_RDMs_mahalanobis_all_subjects, similiarities,
                    compare_calls, significance, significance_report,
                    ttest_calls, rdm_saves, rsa_saves,
                    all_similiarity_values, assigned, anova_reads,
                    similiarity_data, anova_results, anova_report >>

Next ==
    \/ RegionLoop
    \/ CalcRDMs
    \/ Mahalanobis
    \/ StartCompare
    \/ Compare
    \/ TTest
    \/ SaveRDM
    \/ SaveRSACorr
    \/ SaveRSATtest
    \/ AnovaAlloc
    \/ AnovaRead
    \/ BuildDataFrame
    \/ AnovaFit
    \/ AnovaReport
    \/ WriteAnova

Spec == Init /\ [][Next]_vars


\* ================================================================ claims
Kinds == <<"stimulation", "imagery", "all">>

AnovaStages == {"anova_alloc", "anova_read", "anova_fit", "anova_report",
                "anova_write", "done"}

\* the regions whose three Euclidean RDMs are in the all-regions lists
RegionsWithRDMs ==
    {regions_of_interest[r] :
        r \in 1..Len(all_RDMs_euclidean_all_regions)}

\* the regions whose t-test has been computed
RegionsTested == {ttest_calls[t].region : t \in DOMAIN ttest_calls}

\* C1: within a region the stages run in the order RDMs -> per-subject
\* comparison -> t-test -> saving. Every comparison made belongs to a region
\* whose RDMs are already in the all-regions lists, and the comparisons of
\* the region being processed are between RDMs held in that region's
\* stimulation and imagery RDMs; every t-test made follows the comparisons
\* of all subjects of its region; every RDM or RSA result saved belongs to a
\* region whose t-test has been computed.
C1_StageOrder ==
    /\ Len(stimulation_RDMs_euclidean_all_regions)
          = Len(all_RDMs_euclidean_all_regions)
    /\ Len(imagery_RDMs_euclidean_all_regions)
          = Len(all_RDMs_euclidean_all_regions)
    /\ {compare_calls[i].region : i \in DOMAIN compare_calls}
          \subseteq RegionsWithRDMs
    /\ pc = "compare" =>
          \A i \in (Len(compare_calls) - subj_idx + 1)..Len(compare_calls) :
             /\ compare_calls[i].region = region
             /\ \E k \in 1..NSubj :
                   stimulation_RDMs_euclidean_all_regions[region_idx][k]
                      = compare_calls[i].a
             /\ \E k \in 1..NSubj :
                   imagery_RDMs_euclidean_all_regions[region_idx][k]
                      = compare_calls[i].b
    /\ \A t \in DOMAIN ttest_calls :
          /\ Len(compare_calls) >= t * NSubj
          /\ compare_calls[(t - 1) * NSubj + 1].region = ttest_calls[t].region
          /\ compare_calls[t * NSubj].region = ttest_calls[t].region
    /\ {rdm_saves[i].region : i \in DOMAIN rdm_saves} \subseteq RegionsTested
    /\ {rsa_saves[i].region : i \in DOMAIN rsa_saves} \subseteq RegionsTested

\* C1 witness: the second region's results are being saved, after its t-test
C1_Witness ==
    /\ pc = "save_ttest"
    /\ region_idx = 2
    /\ Len(ttest_calls) = 2
    /\ Len(rdm_saves) = 2 * 3 * NSubj
    /\ deviant # {}

\* C2: the ANOVA stage runs only after every region of regions_of_interest
\* has been processed exactly once, in list order, and its 'corr' result has
\* been saved; every similarity file the ANOVA stage reads was written
\* earlier in this run.
C2_AnovaAfterAllRegions ==
    /\ pc \in AnovaStages =>
          /\ [r \in 1..Len(ttest_calls) |-> ttest_calls[r].region]
                = regions_of_interest
          /\ [r \in 1..NReg |-> rsa_saves[2 * r - 1].region]
                = regions_of_interest
          /\ \A r \in 1..NReg :
                /\ rsa_saves[2 * r - 1].method = "corr"
                /\ fs[CorrPath(regions_of_interest[r])].exists
                /\ fs[CorrPath(regions_of_interest[r])].fresh
    /\ \A i \in DOMAIN anova_reads : anova_reads[i].fresh

\* C2 witness: the ANOVA stage has read all five files in a run that started
\* with files of an earlier run on disk
C2_Witness ==
    /\ pc = "anova_fit"
    /\ Len(anova_reads) = NReg
    /\ fs[AnovaPath].exists
    /\ ~fs[AnovaPath].fresh

\* C3: the report written to similiarities_anova.txt is the report of the
\* ANOVA fitted in this run (its F statistic and degrees of freedom).
C3_ReportIsAnovaResult ==
    pc = "done" => fs[AnovaPath].content = <<ReportOf(anova_results)>>

\* C4: when the t-test of a region has just been computed, its sample holds
\* exactly len(subjects) values, the i-th being the comparison of the
\* stimulation RDM and the imagery RDM of that region that both carry the
\* key of the i-th subject; while the comparisons run, the list holds one
\* value per subject handled so far (nothing of an earlier region).
C4_OneSimilarityPerSubject ==
    /\ (pc = "save_rdm" /\ subj_idx = 0) =>
          LET t == Len(ttest_calls)
          IN  /\ t = region_idx
              /\ ttest_calls[t].region = region
              /\ ttest_calls[t].sample = similiarities
              /\ Len(ttest_calls[t].sample) = NSubj
              /\ Len(compare_calls) = t * NSubj
              /\ \A i \in 1..NSubj :
                    LET call == compare_calls[(t - 1) * NSubj + i]
                    IN  /\ call.region = region
                        /\ call.a.subjects = IntOfDigits(subjects[i])
                        /\ call.b.subjects = IntOfDigits(subjects[i])
                        /\ call.a.kind = "stimulation"
                        /\ call.b.kind = "imagery"
                        /\ call.a.region = region
                        /\ call.b.region = region
                        /\ ttest_calls[t].sample[i]
                              = compare(<<call.a>>, <<call.b>>)
                        /\ ttest_calls[t].sample[i]
                              = IF <<region_idx, i>> \in deviant THEN 0 ELSE 1
    /\ pc = "compare" => Len(similiarities) = subj_idx

\* C4 witness: the t-test of the second region has been computed on a sample
\* that holds a deviant subject's value
C4_Witness ==
    /\ pc = "save_rdm"
    /\ subj_idx = 0
    /\ Len(ttest_calls) = 2
    /\ \E i \in 1..NSubj : ttest_calls[2].sample[i] = 0

\* C5: while the similarity files are read, exactly the positions of the
\* regions already read have been assigned, each once; after the loop every
\* position has been assigned exactly once, and position i*len(subjects)+j
\* holds the similarity of subject j (from 0) of the region at index i.
C5_SlicesCoverOnce ==
    /\ pc = "anova_read" =>
          \A q \in 0..(NSubj * NReg - 1) :
             assigned[q + 1] = IF q < region_idx * NSubj THEN 1 ELSE 0
    /\ pc \in {"anova_fit", "anova_report", "anova_write", "done"} =>
          /\ Len(all_similiarity_values) = NSubj * NReg
          /\ \A q \in 0..(NSubj * NReg - 1) : assigned[q + 1] = 1
    /\ pc \in {"anova_read", "anova_fit", "anova_report", "anova_write",
               "done"} =>
          \A i \in 0..(NReg - 1) : \A j \in 0..(NSubj - 1) :
             assigned[i * NSubj + j + 1] = 1 =>
                all_similiarity_values[i * NSubj + j + 1]
                   = ttest_calls[i + 1].sample[j + 1]

\* C5 witness: the whole array has been filled in a run with a deviant cell
C5_Witness ==
    /\ pc = "anova_fit"
    /\ \E q \in 1..(NSubj * NReg) : all_similiarity_values[q] = 0
    /\ \E q \in 1..(NSubj * NReg) : all_similiarity_values[q] = 1

\* C6: row k (from 0) of the data frame carries Subject = (k mod 10) + 1 and
\* ROIs = (k div 10) + 1, and its Similiarity is the value of that subject
\* and that region (by position); every (Subject, ROIs) pair of
\* {1..10} x {1..5} occurs in exactly one row.
C6_BalancedDesign ==
    pc \in {"anova_fit", "anova_report", "anova_write", "done"} =>
       /\ Len(similiarity_data) = NSubj * NReg
       /\ \A k \in 0..(NSubj * NReg - 1) :
             LET row == similiarity_data[k + 1]
             IN  /\ row.Subject = (k % NSubj) + 1
                 /\ row.ROIs = (k \div NSubj) + 1
                 /\ row.Similiarity = all_similiarity_values[k + 1]
                 /\ row.Similiarity = ttest_calls[row.ROIs].sample[row.Subject]
       /\ \A sj \in 1..NSubj : \A ro \in 1..NReg :
             Cardinality({k \in 1..Len(similiarity_data) :
                             /\ similiarity_data[k].Subject = sj
                             /\ similiarity_data[k].ROIs = ro}) = 1

\* C6 witness: the ANOVA has been fitted on a data frame holding a deviant
\* cell's value
C6_Witness ==
    /\ pc = "anova_report"
    /\ \E k \in 1..(NSubj * NReg) : similiarity_data[k].Similiarity = 0
    /\ anova_results.F_den # 0

\* C7: whenever a region has been processed, the save_rdm_results calls
\* made so far are, region by region and subject by subject, the kinds
\* 'stimulation', 'imagery', 'all' with distance 'euclidean', and the
\* save_rsa_results calls are, region by region, 'corr' with the similarity
\* list and then 'ttest' with the report; the RSA saves of a region are made
\* after all its RDM saves and before any RDM save of the next region; a
\* complete run makes 3*len(subjects)*5 RDM saves and 2*5 RSA saves and
\* leaves one RDM per region, in region order, in each of the three
\* all-regions lists.
C7_SaveCalls ==
    /\ pc \in {"region_loop"} \cup AnovaStages =>
          /\ Len(rdm_saves) = 3 * NSubj * region_idx \/ pc # "region_loop"
          /\ Len(rsa_saves) = 2 * region_idx \/ pc # "region_loop"
          /\ \A n \in DOMAIN rdm_saves :
                LET r == ((n - 1) \div (3 * NSubj)) + 1
                    j == (((n - 1) % (3 * NSubj)) \div 3) + 1
                    c == ((n - 1) % 3) + 1
                IN  /\ rdm_saves[n].region = regions_of_interest[r]
                    /\ rdm_saves[n].subject = subjects[j]
                    /\ rdm_saves[n].kind = Kinds[c]
                    /\ rdm_saves[n].distance = "euclidean"
          /\ \A n \in DOMAIN rsa_saves :
                LET r == ((n - 1) \div 2) + 1
                IN  /\ rsa_saves[n].region = regions_of_interest[r]
                    /\ rsa_saves[n].method
                          = IF n % 2 = 1 THEN "corr" ELSE "ttest"
                    /\ n % 2 = 1 => rsa_saves[n].data = ttest_calls[r].sample
                    /\ n % 2 = 0 =>
                          rsa_saves[n].data.total
                             = SumSeq(ttest_calls[r].sample)
    /\ Len(rdm_saves) >= 3 * NSubj * ((Len(rsa_saves) + 1) \div 2)
    /\ Len(rdm_saves) <= 3 * NSubj * ((Len(rsa_saves) \div 2) + 1)
    /\ Len(rsa_saves) % 2 = 1 =>
          Len(rdm_saves) = 3 * NSubj * ((Len(rsa_saves) + 1) \div 2)
    /\ pc \in AnovaStages =>
          /\ Len(rdm_saves) = 3 * NSubj * NReg
          /\ Len(rsa_saves) = 2 * NReg
          /\ Len(stimulation_RDMs_euclidean_all_regions) = NReg
          /\ Len(imagery_RDMs_euclidean_all_regions) = NReg
          /\ Len(all_RDMs_euclidean_all_regions) = NReg
          /\ \A r \in 1..NReg : \A k \in 1..NSubj :
                /\ stimulation_RDMs_euclidean_all_regions[r][k].region
                      = regions_of_interest[r]
                /\ stimulation_RDMs_euclidean_all_regions[r][k].kind
                      = "stimulation"
                /\ imagery_RDMs_euclidean_all_regions[r][k].region
                      = regions_of_interest[r]
                /\ imagery_RDMs_euclidean_all_regions[r][k].kind = "imagery"
                /\ all_RDMs_euclidean_all_regions[r][k].region
                      = regions_of_interest[r]
                /\ all_RDMs_euclidean_all_regions[r][k].kind = "all"

\* C7 witness: the region loop has ended with all saves made
C7_Witness ==
    /\ pc = "anova_alloc"
    /\ Len(rdm_saves) = 3 * NSubj * NReg
    /\ Len(rsa_saves) = 2 * NReg

====
